---------------------------- MODULE Spec2Model ----------------------------
(***************************************************************************)
(* A model of the PDF watermark engine of water-mark (src/src/lib.rs, the  *)
(* library, and src/src/main.rs, the command-line program).                *)
(*                                                                         *)
(* Numbers.  The program computes in f32.  The model computes in fixed     *)
(* point: every length is an integer number of tenths of a point (so       *)
(* 595 pt is 5950 and MIN_GRID_STEP_SIZE = 0.1 pt is 1), and a cosine or a *)
(* sine is an integer number of thousandths.  Angles are whole degrees.    *)
(***************************************************************************)
EXTENDS Integers, Sequences, FiniteSets, TLC

VARIABLES
    g_in,     \* Grid Planner: the arguments of the call under study
    g_out,    \* Grid Planner: its result, or NoResult before the call
    n_out,    \* command-line grid builder: its result on the same arguments
    d_in,     \* Grid Planner, validation part: the arguments
    d_out,    \* Grid Planner, validation part: verdict and loop bounds
    t_text,   \* Vectorizer: the text, a sequence of characters
    t_pc,     \* Vectorizer: "start", "chars", "done" (or "idle")
    t_i,      \* Vectorizer: how many characters the loop has consumed
    t_ops,    \* Vectorizer: the operations pushed so far
    x_cursor, \* Vectorizer: the horizontal cursor
    r_doc,    \* rotation lookup: the document's objects, by object id
    r_current, \* library lookup: current_id, None or Some(id)
    r_depth,  \* library lookup: depth
    r_pc,     \* library lookup: "walk", "done" (or "idle")
    r_result, \* library lookup: the value returned
    m_current, \* command-line lookup: current_id
    m_pc,     \* command-line lookup: "walk", "done" (or "idle")
    m_turn,   \* command-line lookup: the turns of the loop taken, modulo 2
    m_result, \* command-line lookup: the value returned
    p_pc,     \* run: "load", "pages", "save", "done" (or "idle")
    p_doc,    \* run: the document's objects, by object id
    p_doc0,   \* run: the document as Document::load returned it (history)
    p_pages,  \* run: doc.get_pages(), the page ids in document order
    p_text,   \* run: the watermark text
    p_idx,    \* run: how many pages the loop has taken
    p_xobject_id, \* run: xobject_id, 0 before it is set
    p_text_w, \* run: text_w
    p_added,  \* run: the object ids doc.add_object returned (history)
    p_visited, \* run: the pages the loop has taken, in order (history)
    p_log,    \* run: the warnings printed, <<page id, step>> each
    p_saved,  \* run: has doc.save written the output file?
    p_load,   \* run: "none", then "ok" or "err": did loading succeed? (history)
    p_save_called, \* run: has doc.save been invoked? (history)
    p_result, \* run: "none", "ok" or "err"
    s_doc,    \* one page: the document holding it, by object id
    s_size,   \* one page: the geometry the loop uses, or NoResult
    s_lib,    \* one page: what the library's add_xobject_to_page did
    s_main    \* one page: what the command-line add_xobject_to_page did

vars == <<g_in, g_out, n_out, d_in, d_out, t_text, t_pc, t_i, t_ops, x_cursor, r_doc, r_current, r_depth, r_pc, r_result, m_current, m_pc, m_turn, m_result, p_pc, p_doc, p_doc0, p_pages, p_text, p_idx, p_xobject_id, p_text_w, p_added, p_visited, p_log, p_saved, p_load, p_save_called, p_result, s_doc, s_size, s_lib, s_main>>

runVars == <<p_pc, p_doc, p_doc0, p_pages, p_text, p_idx, p_xobject_id, p_text_w, p_added, p_visited, p_log, p_saved, p_load, p_save_called, p_result>>

rotVars == <<r_doc, r_current, r_depth, r_pc, r_result, m_current, m_pc, m_turn, m_result>>

gridVars == <<g_in, g_out, n_out, d_in, d_out>>
vecVars == <<t_text, t_pc, t_i, t_ops, x_cursor>>

pageVars == <<s_doc, s_size, s_lib, s_main>>

NoResult == [status |-> "none"]

-----------------------------------------------------------------------------
(* Constants of src/src/lib.rs, in the model's units.                      *)

DEFAULT_FONT_SIZE == 260            \* 26.0 pt
GRID_HORIZONTAL_GAP == 300          \* 30.0 pt
GRID_VERTICAL_MULTIPLIER == 6       \* 6.0, a pure factor
WATERMARK_ANGLE_DEG == 60           \* degrees
CENTER_X_OFFSET == 0
CENTER_Y_OFFSET == 0
COVERAGE_MULTIPLIER_TENTHS == 15    \* 1.5, a pure factor, in tenths
VISIBILITY_MARGIN == 500            \* 50.0 pt
MAX_ALLOWED_WATERMARKS == 1000000
MIN_GRID_STEP_SIZE == 1             \* 0.1 pt
V_START_EXTRA == 2000               \* the literal 200.0 of v_start
DEFAULT_PAGE_W == 5950              \* the literal 595.0
DEFAULT_PAGE_H == 8420              \* the literal 842.0

-----------------------------------------------------------------------------
(* Arithmetic helpers standing for f32 operations.                         *)

Abs(a) == IF a < 0 THEN -a ELSE a
Max(a, b) == IF a >= b THEN a ELSE b
Min(a, b) == IF a <= b THEN a ELSE b

\* f32::ceil of the quotient a / b, for b > 0.
CeilDiv(a, b) == -((-a) \div b)

\* `(x.ceil() as isize).max(0) as usize`
CeilCount(span, step) == Max(CeilDiv(span, step), 0)

\* The largest r in lo..hi with r * r <= n (lo * lo <= n is given).
RECURSIVE SqrtSearch(_, _, _)
SqrtSearch(n, lo, hi) ==
    IF lo >= hi THEN lo
    ELSE LET mid == (lo + hi + 1) \div 2
         IN  IF mid * mid <= n THEN SqrtSearch(n, mid, hi)
             ELSE SqrtSearch(n, lo, mid - 1)

SqrtLimit == 46340      \* 46340^2 is the largest square below 2^31
HypotExactLimit == 30000

Isqrt(n) == SqrtSearch(n, 0, Min(n, SqrtLimit))

\* (width.powi(2) + height.powi(2)).sqrt().  Like f32, the model keeps a
\* bounded number of significant digits: operands above HypotExactLimit are
\* halved before squaring and the root is doubled.
RECURSIVE Hypot(_, _)
Hypot(w, h) ==
    IF Abs(w) <= HypotExactLimit /\ Abs(h) <= HypotExactLimit
    THEN Isqrt(w * w + h * h)
    ELSE 2 * Hypot(w \div 2, h \div 2)

\* usize::saturating_mul.  The product is only ever compared with
\* MAX_ALLOWED_WATERMARKS, so the model saturates at SatLimit instead of
\* usize::MAX.
SatLimit == 2000000000
saturating_mul(a, b) ==
    IF a = 0 \/ b = 0 THEN 0
    ELSE IF a > SatLimit \div b THEN SatLimit
    ELSE a * b

\* sin of 0, 15, ..., 90 degrees, in thousandths.
SinQuarter == <<0, 259, 500, 707, 866, 966, 1000>>

\* f32::to_radians followed by sin / cos, for whole multiples of 15 degrees.
SinMilli(deg) ==
    LET a == deg % 360
    IN  IF a <= 90 THEN SinQuarter[(a \div 15) + 1]
        ELSE IF a <= 180 THEN SinQuarter[((180 - a) \div 15) + 1]
        ELSE IF a <= 270 THEN -SinQuarter[((a - 180) \div 15) + 1]
        ELSE -SinQuarter[((360 - a) \div 15) + 1]

CosMilli(deg) == SinMilli(deg + 90)

TrigScale == 1000

\* u * c - v * s and u * s + v * c, back in tenths of a point.
Rot(a, b) == (a + b) \div TrigScale

-----------------------------------------------------------------------------
(* Glyph Vectorizer: text_to_pdf_paths and measure_text_width (lib.rs).    *)
(*                                                                         *)
(* An outline point is <<x, y>> in thousandths of a font design unit, so   *)
(* the contour epsilon 0.001 is 1.  A curve is <<"Line", p0, p1>>,         *)
(* <<"Quad", p0, p1, p2>> or <<"Cubic", p0, p1, p2, p3>>.                  *)

CONTOUR_EPSILON == 1            \* the literal 0.001 of line 323
UNITS_PER_EM_MILLI == 1000000   \* the font's height, 1000 design units

None == <<"None">>
Some(v) == <<"Some", v>>

\* The font (ab_glyph::FontRef): per character, the outline of its glyph
\* (None when it has none) and its unscaled horizontal advance.
\*   " "  no outline                     "l"  one contour of three lines
\*   "o"  an outer contour of quadratics, whose last segment starts within
\*        epsilon of the previous end, and an inner contour of a cubic and
\*        a line that starts higher up at the same x
\*   "i"  two contours of lines, the second one unit beyond epsilon away
\*   "e"  an outline with no curve at all
Chars == {" ", "l", "o", "i", "e"}

FontOutline(ch) ==
    CASE ch = " " -> None
      [] ch = "l" -> Some(<< <<"Line", <<0, 0>>, <<300000, 0>> >>,
                             <<"Line", <<300000, 0>>, <<0, 700000>> >>,
                             <<"Line", <<0, 700000>>, <<0, 0>> >> >>)
      [] ch = "o" -> Some(<< <<"Quad", <<0, 0>>, <<300000, -90000>>, <<600000, 0>> >>,
                             <<"Quad", <<600000, 0>>, <<690000, 300000>>, <<600000, 600000>> >>,
                             <<"Quad", <<600001, 599999>>, <<300000, 690000>>, <<0, 0>> >>,
                             <<"Cubic", <<0, 200000>>, <<150000, 150000>>, <<300000, 150000>>, <<400000, 200000>> >>,
                             <<"Line", <<400000, 200000>>, <<0, 200000>> >> >>)
      [] ch = "i" -> Some(<< <<"Line", <<0, 0>>, <<0, 500000>> >>,
                             <<"Line", <<0, 500000>>, <<100000, 0>> >>,
                             <<"Line", <<100002, 0>>, <<100002, 600000>> >>,
                             <<"Line", <<100002, 600000>>, <<0, 600000>> >> >>)
      [] OTHER -> Some(<<>>)

h_advance_unscaled(ch) ==
    CASE ch = " " -> 250000
      [] ch = "l" -> 333000
      [] ch = "o" -> 650000
      [] ch = "i" -> 222000
      [] OTHER -> 500000

\* scaled_font.h_scale_factor() / v_scale_factor() applied to a coordinate:
\* a * size / height, from thousandths of a design unit to tenths of a point.
ScaleH(a, size) == (a * size) \div UNITS_PER_EM_MILLI
ScaleV(a, size) == (a * size) \div UNITS_PER_EM_MILLI

\* scaled_font.h_advance(glyph_id)
h_advance(ch, size) == ScaleH(h_advance_unscaled(ch), size)

\* Lines 314-318: the start point of a curve.
CurveStart(curve) == curve[2]

\* Lines 321-324: does this curve start a new contour?
is_new_contour(last_point, p0) ==
    IF last_point = None THEN TRUE
    ELSE LET lp == last_point[2]
         IN  Abs(p0[1] - lp[1]) > CONTOUR_EPSILON
             \/ Abs(p0[2] - lp[2]) > CONTOUR_EPSILON

\* A point mapped by the cursor/scale transform, as two operands.
Mapped(pt, xc, y_start, size) ==
    <<xc + ScaleH(pt[1], size), y_start + ScaleV(pt[2], size)>>

\* Half of a.
OneHalf(a) == a \div 2

\* 2/3 of a, the factor of the degree elevation.
TwoThirds(a) == (2 * a) \div 3

\* Lines 339-383: the drawing operation of one curve.
CurveOp(curve, xc, y_start, size) ==
    CASE curve[1] = "Line" ->
            <<"l">> \o Mapped(curve[3], xc, y_start, size)
      [] curve[1] = "Quad" ->
            LET p0 == curve[2]
                p1 == curve[3]
                p2 == curve[4]
                q1 == <<p0[1] + TwoThirds(p1[1] - p0[1]),
                        p0[2] + TwoThirds(p1[2] - p0[2])>>
                q2 == <<p2[1] + TwoThirds(p1[1] - p2[1]),
                        p2[2] + TwoThirds(p1[2] - p2[2])>>
            IN  <<"c">> \o Mapped(q1, xc, y_start, size)
                        \o Mapped(q2, xc, y_start, size)
                        \o Mapped(p2, xc, y_start, size)
      [] OTHER ->
            <<"c">> \o Mapped(curve[3], xc, y_start, size)
                    \o Mapped(curve[4], xc, y_start, size)
                    \o Mapped(curve[5], xc, y_start, size)

\* Lines 348, 367, 381: the end point of a curve, the new last_point.
CurveEnd(curve) == curve[Len(curve)]

\* Lines 326-337: the operations pushed when a curve starts a new contour.
ContourStartOps(last_point, p0, xc, y_start, size) ==
    (IF last_point # None THEN << <<"h">> >> ELSE <<>>)
        \o << <<"m">> \o Mapped(p0, xc, y_start, size) >>

\* Lines 385-387: close the last contour of the glyph.
CloseLastNever(last_point) == <<>>

CloseLast(last_point) ==
    IF last_point # None THEN << <<"h">> >> ELSE <<>>

\* Lines 313-387: the operations of the curves from index i on.
RECURSIVE CurvesOps(_, _, _, _, _, _)
CurvesOps(curves, i, last_point, xc, y_start, size) ==
    IF i > Len(curves) THEN CloseLast(last_point)
    ELSE
    LET curve == curves[i]
        p0 == CurveStart(curve)
    IN  (IF is_new_contour(last_point, p0)
         THEN ContourStartOps(last_point, p0, xc, y_start, size)
         ELSE <<>>)
        \o << CurveOp(curve, xc, y_start, size) >>
        \o CurvesOps(curves, i + 1, Some(CurveEnd(curve)), xc, y_start, size)

\* Lines 309-388: the operations of one character.
GlyphOps(ch, xc, y_start, size) ==
    LET outline == FontOutline(ch)
    IN  IF outline = None THEN <<>>
        ELSE CurvesOps(outline[2], 1, None, xc, y_start, size)

\* Line 389, the cursor after one character.
AdvanceOnlyOutlined(xc, ch, size) ==
    IF FontOutline(ch) = None THEN xc ELSE xc + h_advance(ch, size)

Advance(xc, ch, size) == xc + h_advance(ch, size)

\* measure_text_width, lines 406-413: w after the characters up to n.
RECURSIVE MeasureUpTo(_, _, _)
MeasureUpTo(text, n, size) ==
    IF n = 0 THEN 0
    ELSE MeasureUpTo(text, n - 1, size) + h_advance(text[n], size)

measure_text_width(text, size) == MeasureUpTo(text, Len(text), size)

\* The arguments run_watermark_process passes at line 184.
X_START == 0
Y_START == 0

MaxTextLen == 3

RECURSIVE TextsOfLen(_)
TextsOfLen(n) ==
    IF n = 0 THEN {<<>>}
    ELSE {Append(t, ch) : t \in TextsOfLen(n - 1), ch \in Chars}

Texts == UNION {TextsOfLen(n) : n \in 0..MaxTextLen}

VecIdle ==
    /\ t_text = <<>>
    /\ t_pc = "idle"
    /\ t_i = 0
    /\ t_ops = <<>>
    /\ x_cursor = 0

\* Lines 296-307.
VecStart ==
    /\ t_pc = "start"
    /\ t_ops' = << <<"q">>, <<"gs", "GS1">>, <<"rg", 1, 1, 1>> >>
    /\ x_cursor' = X_START
    /\ t_pc' = "chars"
    /\ UNCHANGED <<t_text, t_i>>

\* Lines 308-390, one turn of `for c in text.chars()`.
VecChar ==
    /\ t_pc = "chars"
    /\ t_i < Len(t_text)
    /\ LET c == t_text[t_i + 1]
       IN  /\ t_ops' = t_ops \o GlyphOps(c, x_cursor, Y_START, DEFAULT_FONT_SIZE)
           /\ x_cursor' = Advance(x_cursor, c, DEFAULT_FONT_SIZE)
    /\ t_i' = t_i + 1
    /\ UNCHANGED <<t_text, t_pc>>

\* Lines 391-394.
VecFinish ==
    /\ t_pc = "chars"
    /\ t_i = Len(t_text)
    /\ t_ops' = t_ops \o << <<"f">>, <<"Q">> >>
    /\ t_pc' = "done"
    /\ UNCHANGED <<t_text, t_i, x_cursor>>

-----------------------------------------------------------------------------
(* Rotation lookup: get_page_rotation of lib.rs and of main.rs.            *)
(*                                                                         *)
(* A document is a function from object ids to objects.  An object is a    *)
(* record: kind is "dict", "stream", "int" (an Integer object, val its     *)
(* value) or "other"; a dictionary entry (rotate, parent) is <<"absent">>, *)
(* <<"int", n>>, <<"ref", id>> or <<"other">> (any other object).          *)

MAX_PARENT_DEPTH == 10

Absent == <<"absent">>
IntEntry(n) == <<"int", n>>
RefEntry(id) == <<"ref", id>>
OtherEntry == <<"other">>

\* doc.get_object(id) is Ok
HasObject(doc, id) == id \in DOMAIN doc

\* Object::Dictionary(d) or Object::Stream(s), whose dictionary is read
DictLike(obj) == obj.kind \in {"dict", "stream"}

\* Lines 470-481: the integer a Rotate entry resolves to, or None.
ResolveRotate(doc, entry) ==
    CASE entry[1] = "int" -> Some(entry[2])
      [] entry[1] = "ref" ->
            IF HasObject(doc, entry[2]) /\ doc[entry[2]].kind = "int"
            THEN Some(doc[entry[2]].val)
            ELSE None
      [] OTHER -> None

\* Lines 486-490: the next current_id.
ParentOf(obj) ==
    IF obj.parent[1] = "ref" THEN Some(obj.parent[2]) ELSE None

\* Line 461: the depth guard of the library's loop.
DepthExceededEarly(depth) == depth >= MAX_PARENT_DEPTH

DepthExceeded(depth) == depth > MAX_PARENT_DEPTH

\* lib.rs lines 460-495, one turn of `while let Some(id) = current_id` with
\* current_id = Some(id): the loop's variables afterwards, pc = "done"
\* meaning that the function has returned result.
LibTurn(doc, current, depth) ==
    LET id == current[2]
    IN  IF DepthExceeded(depth) \/ ~HasObject(doc, id) \/ ~DictLike(doc[id])
        THEN [pc |-> "done", result |-> 0, current |-> current, depth |-> depth]
        ELSE LET r == ResolveRotate(doc, doc[id].rotate)
             IN  IF r # None
                 THEN [pc |-> "done", result |-> r[2], current |-> current,
                       depth |-> depth]
                 ELSE [pc |-> "walk", result |-> 0,
                       current |-> ParentOf(doc[id]), depth |-> depth + 1]

LibIter ==
    /\ r_pc = "walk"
    /\ r_current # None
    /\ LET n == LibTurn(r_doc, r_current, r_depth)
       IN  /\ r_pc' = n.pc
           /\ r_result' = n.result
           /\ r_current' = n.current
           /\ r_depth' = n.depth
    /\ UNCHANGED <<r_doc, m_current, m_pc, m_turn, m_result>>

\* lib.rs lines 460 and 496: the loop ends on None and 0.0 is returned.
LibExit ==
    /\ r_pc = "walk"
    /\ r_current = None
    /\ r_pc' = "done"
    /\ r_result' = 0
    /\ UNCHANGED <<r_doc, r_current, r_depth, m_current, m_pc, m_turn, m_result>>

\* main.rs lines 259-321, one turn of `while let Some(id) = current_id`.
MainIter ==
    /\ m_pc = "walk"
    /\ m_current # None
    /\ LET id == m_current[2]
       IN  IF ~HasObject(r_doc, id)
           THEN /\ m_pc' = "done"
                /\ m_result' = 0
                /\ UNCHANGED m_current
           ELSE IF ~DictLike(r_doc[id])
           THEN /\ m_current' = None
                /\ UNCHANGED <<m_pc, m_result>>
           ELSE LET r == ResolveRotate(r_doc, r_doc[id].rotate)
                IN  IF r # None
                    THEN /\ m_pc' = "done"
                         /\ m_result' = r[2]
                         /\ UNCHANGED m_current
                    ELSE /\ m_current' = ParentOf(r_doc[id])
                         /\ UNCHANGED <<m_pc, m_result>>
    /\ m_turn' = (m_turn + 1) % 2
    /\ UNCHANGED <<r_doc, r_current, r_depth, r_pc, r_result>>

\* main.rs lines 259 and 323.
MainExit ==
    /\ m_pc = "walk"
    /\ m_current = None
    /\ m_pc' = "done"
    /\ m_result' = 0
    /\ UNCHANGED <<r_doc, r_current, r_depth, r_pc, r_result, m_current, m_turn>>

\* lib.rs get_page_rotation as a function: the turns of the loop, one after
\* the other, from (current, depth) on.
RECURSIVE LibWalk(_, _, _)
LibWalk(doc, current, depth) ==
    IF current = None THEN 0
    ELSE LET n == LibTurn(doc, current, depth)
         IN  IF n.pc = "done" THEN n.result
             ELSE LibWalk(doc, n.current, n.depth)

get_page_rotation(doc, page_id) == LibWalk(doc, Some(page_id), 0)

RotIdle ==
    /\ r_doc = <<>>
    /\ r_current = None
    /\ r_depth = 0
    /\ r_pc = "idle"
    /\ r_result = 0
    /\ m_current = None
    /\ m_pc = "idle"
    /\ m_turn = 0
    /\ m_result = 0

-----------------------------------------------------------------------------
(* Grid Planner: build_watermark_grid_ops_xobject_optimized (lib.rs).      *)

\* Line 574: both steps must exceed MIN_GRID_STEP_SIZE.
StepsValidNoThreshold(step_inner, step_outer) ==
    step_inner > 0 /\ step_outer > 0

StepsValid(step_inner, step_outer) ==
    step_inner > MIN_GRID_STEP_SIZE /\ step_outer > MIN_GRID_STEP_SIZE

\* Lines 570-609: the two steps, their validation, the loop bounds and the
\* density check.  status is "sizing", "density" or "ok".
GridCheck(size, width, height, text_w) ==
    LET step_inner == text_w + GRID_HORIZONTAL_GAP
        step_outer == size * GRID_VERTICAL_MULTIPLIER
    IN  IF ~StepsValid(step_inner, step_outer)
        THEN [status |-> "sizing", step_inner |-> step_inner,
              step_outer |-> step_outer, v_count |-> 0, u_count |-> 0,
              estimated |-> 0]
        ELSE
        LET diag == (Hypot(width, height) * COVERAGE_MULTIPLIER_TENTHS) \div 10
            v_start == -diag - V_START_EXTRA
            v_end == diag
            total_v_span == v_end - v_start
            v_count == CeilCount(total_v_span, step_outer)
            u_start == -diag
            u_end == diag
            total_u_span == u_end - u_start
            u_count == CeilCount(total_u_span, step_inner)
            estimated == saturating_mul(v_count, u_count)
        IN  [status |-> IF estimated > MAX_ALLOWED_WATERMARKS
                        THEN "density" ELSE "ok",
             step_inner |-> step_inner, step_outer |-> step_outer,
             v_count |-> v_count, u_count |-> u_count,
             estimated |-> estimated]

\* Lines 612 and 614: the number of (vi, ui) pairs that
\* `for vi in 0..=v_count { for ui in 0..=u_count {` visits.
GridIterations(v_count, u_count) == (v_count + 1) * (u_count + 1)

\* Lines 621-624: the cull.
VisibleNoFloor(x, y, width, height) ==
    /\ x > -VISIBILITY_MARGIN
    /\ x < width + VISIBILITY_MARGIN
    /\ y < height + VISIBILITY_MARGIN

Visible(x, y, width, height) ==
    /\ x > -VISIBILITY_MARGIN
    /\ x < width + VISIBILITY_MARGIN
    /\ y > -VISIBILITY_MARGIN
    /\ y < height + VISIBILITY_MARGIN

\* One instance with the transform transposed.
InstanceOpsTransposed(x_name, c, s, x, y) ==
    << <<"q">>, <<"cm", c, -s, s, c, x, y>>, <<"Do", x_name>>, <<"Q">> >>

\* Lines 626-643: the four operations of one instance.
InstanceOps(x_name, c, s, x, y) ==
    << <<"q">>, <<"cm", c, s, -s, c, x, y>>, <<"Do", x_name>>, <<"Q">> >>

\* Lines 614-645: what the inner loop of row vi pushes from column ui on.
\* p carries what the loop reads.
RECURSIVE GridRow(_, _, _)
GridRow(p, vi, ui) ==
    IF ui > p.u_count THEN <<>>
    ELSE
    LET v == p.v_start + vi * p.step_outer
        u == p.u_start + ui * p.step_inner
        x == p.cx + Rot(u * p.c, -(v * p.s))
        y == p.cy + Rot(u * p.s, v * p.c)
    IN  (IF Visible(x, y, p.width, p.height)
         THEN InstanceOps(p.x_name, p.c, p.s, x, y)
         ELSE <<>>) \o GridRow(p, vi, ui + 1)

\* Lines 612-646: what the outer loop pushes from row vi on.
RECURSIVE GridLoop(_, _)
GridLoop(p, vi) ==
    IF vi > p.v_count THEN <<>>
    ELSE GridRow(p, vi, 0) \o GridLoop(p, vi + 1)

build_watermark_grid_ops_xobject_optimized(x_name, size, angle, width, height, text_w, page_rotation) ==
    LET chk == GridCheck(size, width, height, text_w)
    IN  IF chk.status # "ok" THEN [status |-> chk.status, ops |-> <<>>]
        ELSE
        LET effective_angle == angle + page_rotation
            diag == (Hypot(width, height) * COVERAGE_MULTIPLIER_TENTHS) \div 10
            p == [x_name |-> x_name, width |-> width, height |-> height,
                  c |-> CosMilli(effective_angle),
                  s |-> SinMilli(effective_angle),
                  cx |-> width \div 2 + CENTER_X_OFFSET,
                  cy |-> height \div 2 - CENTER_Y_OFFSET,
                  v_start |-> -diag - V_START_EXTRA, u_start |-> -diag,
                  step_inner |-> chk.step_inner, step_outer |-> chk.step_outer,
                  v_count |-> chk.v_count, u_count |-> chk.u_count]
        IN  [status |-> "ok", ops |-> GridLoop(p, 0)]

-----------------------------------------------------------------------------
(* The grid builder of the command-line program:                           *)
(* build_watermark_grid_ops_xobject (main.rs), with its own literals.      *)

MAIN_HORIZONTAL_GAP == 300          \* the literal 30.0 of step_inner
MAIN_VERTICAL_MULTIPLIER == 6       \* the literal 6.0 of step_outer
MAIN_COVERAGE_TENTHS == 25          \* the literal 2.5 of diag, in tenths
MAIN_CX_OFFSET == 500               \* the literal 50.0 of cx
MAIN_CY_OFFSET == 1000              \* the literal 100.0 of cy
MAIN_V_START_EXTRA == 2000          \* the literal 200.0 of v
MAIN_RIGHT_MARGIN == 1000           \* the literal 100.0 of x < width + 100.0
MAIN_BOTTOM_MARGIN == 2000          \* the literal 200.0 of y > -200.0
MAIN_TOP_MARGIN == 1000             \* the literal 100.0 of y < height + 100.0

\* main.rs line 388: the cull.
MainVisible(x, y, width, height, text_w) ==
    /\ x > -text_w
    /\ x < width + MAIN_RIGHT_MARGIN
    /\ y > -MAIN_BOTTOM_MARGIN
    /\ y < height + MAIN_TOP_MARGIN

\* main.rs lines 382-399: what `while u < diag` pushes from u on, in row v.
RECURSIVE MainGridRow(_, _, _)
MainGridRow(p, v, u) ==
    IF ~(u < p.diag) THEN <<>>
    ELSE
    LET x == p.cx + Rot(u * p.c, -(v * p.s))
        y == p.cy + Rot(u * p.s, v * p.c)
    IN  (IF MainVisible(x, y, p.width, p.height, p.text_w)
         THEN InstanceOps(p.xobject_name, p.c, p.s, x, y)
         ELSE <<>>) \o MainGridRow(p, v, u + p.step_inner)

\* main.rs lines 380-401: what `while v < diag` pushes from v on.
RECURSIVE MainGridLoop(_, _)
MainGridLoop(p, v) ==
    IF ~(v < p.diag) THEN <<>>
    ELSE MainGridRow(p, v, -p.diag) \o MainGridLoop(p, v + p.step_outer)

\* main.rs lines 352-403, text_w being measure_text_width(font, text, size)
\* of line 362.  The function validates nothing: with a step that is not
\* positive a loop that is entered never ends (status "loops").
build_watermark_grid_ops_xobject(xobject_name, size, angle_deg, width, height, page_rotation, text_w) ==
    LET step_inner == text_w + MAIN_HORIZONTAL_GAP
        step_outer == size * MAIN_VERTICAL_MULTIPLIER
        diag == (Hypot(width, height) * MAIN_COVERAGE_TENTHS) \div 10
        p == [xobject_name |-> xobject_name, width |-> width,
              height |-> height, text_w |-> text_w,
              c |-> CosMilli(angle_deg), s |-> SinMilli(angle_deg),
              cx |-> width \div 2 + MAIN_CX_OFFSET,
              cy |-> height \div 2 - MAIN_CY_OFFSET,
              diag |-> diag, step_inner |-> step_inner,
              step_outer |-> step_outer]
    IN  IF step_outer <= 0 \/ (step_inner <= 0 /\ -diag < diag)
        THEN [status |-> "loops", ops |-> <<>>]
        ELSE [status |-> "ok",
              ops |-> MainGridLoop(p, -diag - MAIN_V_START_EXTRA)]

-----------------------------------------------------------------------------
(* Page Injector and run_watermark_process (lib.rs).                       *)
(*                                                                         *)
(* A page object adds to the fields of an object: box, the MediaBox entry  *)
(* (<<"absent">>, <<"other">> or <<"array", entries>>); resources, the     *)
(* Resources entry (<<"absent">>, <<"other">> or <<"dict", xobject>>, with *)
(* xobject the XObject entry of that dictionary: <<"absent">>, <<"other">> *)
(* or <<"dict", f>>, f a function from resource names to object ids);      *)
(* content, the operations of its content stream; appendable, whether      *)
(* lopdf's add_to_page_content can parse and extend that stream.           *)

\* An array entry is <<"num", n>>, a Real or an Integer, or <<"other">>.
NumEntry(n) == <<"num", n>>

\* obj_to_f32, lines 440-446.
obj_to_f32(o) == IF o[1] = "num" THEN o[2] ELSE 0

\* page_size, lines 420-437.
page_size(doc, page_id) ==
    IF ~HasObject(doc, page_id) \/ ~DictLike(doc[page_id]) THEN None
    ELSE LET box == doc[page_id].box
         IN  IF box[1] = "array" /\ Len(box[2]) >= 4
             THEN LET arr == box[2]
                      llx == obj_to_f32(arr[1])
                      lly == obj_to_f32(arr[2])
                      urx == obj_to_f32(arr[3])
                      ury == obj_to_f32(arr[4])
                  IN  Some(<<urx - llx, ury - lly>>)
             ELSE None

\* `.unwrap_or((595.0, 842.0))`, line 219.
unwrap_or(opt, default) == IF opt = None THEN default ELSE opt[2]

EmptyDict == [n \in {} |-> 0]

\* An insertion that would keep an entry already present under name.
DictSetIfAbsent(f, name, id) ==
    [n \in DOMAIN f \cup {name} |-> IF n \in DOMAIN f THEN f[n] ELSE id]

\* Dictionary::set on a dictionary of object ids, lines 521 and 534: the
\* entry under name is inserted or overwritten.
DictSet(f, name, id) ==
    [n \in DOMAIN f \cup {name} |-> IF n = name THEN id ELSE f[n]]

\* add_xobject_to_page, lines 504-539: [ok, doc], doc the document after.
add_xobject_to_page(doc, page_id, x_name, x_id) ==
    IF ~HasObject(doc, page_id) THEN [ok |-> FALSE, doc |-> doc]
    ELSE IF ~DictLike(doc[page_id]) THEN [ok |-> FALSE, doc |-> doc]
    ELSE
    LET res0 == doc[page_id].resources
        res1 == IF res0[1] = "absent" THEN <<"dict", Absent>> ELSE res0
    IN  IF res1[1] # "dict" THEN [ok |-> FALSE, doc |-> doc]
        ELSE
        LET xo0 == res1[2]
            xo1 == IF xo0[1] = "absent" THEN <<"dict", EmptyDict>> ELSE xo0
        IN  IF xo1[1] # "dict" THEN [ok |-> FALSE, doc |-> doc]
            ELSE [ok |-> TRUE,
                  doc |-> [doc EXCEPT ![page_id].resources =
                              <<"dict", <<"dict", DictSet(xo1[2], x_name, x_id)>> >>]]

\* main.rs add_xobject_to_page, lines 326-348: [ok, doc].  Only an
\* Object::Dictionary enters the `if let`; every other object falls through
\* to Ok(()).
main_add_xobject_to_page(doc, page_id, xobject_name, xobject_id) ==
    IF ~HasObject(doc, page_id) THEN [ok |-> FALSE, doc |-> doc]
    ELSE IF doc[page_id].kind # "dict" THEN [ok |-> TRUE, doc |-> doc]
    ELSE
    LET res0 == doc[page_id].resources
        res1 == IF res0[1] = "absent" THEN <<"dict", Absent>> ELSE res0
    IN  IF res1[1] # "dict" THEN [ok |-> FALSE, doc |-> doc]
        ELSE
        LET xo0 == res1[2]
            xo1 == IF xo0[1] = "absent" THEN <<"dict", EmptyDict>> ELSE xo0
        IN  IF xo1[1] # "dict" THEN [ok |-> FALSE, doc |-> doc]
            ELSE [ok |-> TRUE,
                  doc |-> [doc EXCEPT ![page_id].resources =
                              <<"dict", <<"dict", DictSet(xo1[2], xobject_name, xobject_id)>> >>]]

\* Document::add_to_page_content (lopdf), called at line 253: [ok, doc].
add_to_page_content(doc, page_id, ops) ==
    IF HasObject(doc, page_id) /\ doc[page_id].kind = "dict"
       /\ doc[page_id].appendable
    THEN [ok |-> TRUE,
          doc |-> [doc EXCEPT ![page_id].content = @ \o ops]]
    ELSE [ok |-> FALSE, doc |-> doc]

\* text_to_pdf_paths as a function, lines 308-390: what the loop pushes from
\* character i on, the cursor being xc.
RECURSIVE TextOps(_, _, _, _, _)
TextOps(text, i, xc, y_start, size) ==
    IF i > Len(text) THEN <<>>
    ELSE GlyphOps(text[i], xc, y_start, size)
         \o TextOps(text, i + 1, Advance(xc, text[i], size), y_start, size)

text_to_pdf_paths(text, x_start, y_start, size) ==
    << <<"q">>, <<"gs", "GS1">>, <<"rg", 1, 1, 1>> >>
        \o TextOps(text, 1, x_start, y_start, size)
        \o << <<"f">>, <<"Q">> >>

\* Lines 185-209: the Form XObject stream holding the watermark.
WatermarkStream(ops) ==
    [kind |-> "stream", rotate |-> Absent, parent |-> Absent, val |-> 0,
     box |-> Absent, resources |-> <<"dict", Absent>>, content |-> ops,
     appendable |-> FALSE]

\* Document::add_object, line 211: the id it assigns.
NewObjectId(doc) == (CHOOSE m \in DOMAIN doc : \A o \in DOMAIN doc : o <= m) + 1

XOBJECT_NAME == "Watermark1"

\* Does the error end the run (`?`, `return Err`) instead of `continue`?
Propagates == TRUE

\* Lines 225-231: a failed resource registration prints a warning and
\* continues with the next page.
RegisterErrorAborts == FALSE

\* Lines 244-247: so does a Grid Planner error.
GridErrorAborts == FALSE

\* Lines 253-256: so does a failed content append.
AppendErrorAborts == FALSE

\* A skip that would undo the registration.
RolledBack(doc, registered) == doc

\* Lines 246 and 255: `continue` leaves the document as the registration
\* at line 225 made it.
AfterSkip(doc, registered) == registered

\* Lines 219-256, the body of the page loop for page object_id: the document
\* afterwards, the warning printed ("none" if none) and whether the function
\* returns an error from inside the loop.
PageBody(doc, object_id, xobject_id, text_w) ==
    LET wh == unwrap_or(page_size(doc, object_id),
                        <<DEFAULT_PAGE_W, DEFAULT_PAGE_H>>)
        page_rotation == get_page_rotation(doc, object_id)
        reg == add_xobject_to_page(doc, object_id, XOBJECT_NAME, xobject_id)
    IN  IF ~reg.ok
        THEN [doc |-> doc, warn |-> "resource", abort |-> RegisterErrorAborts]
        ELSE
        LET grid == build_watermark_grid_ops_xobject_optimized(
                        XOBJECT_NAME, DEFAULT_FONT_SIZE, WATERMARK_ANGLE_DEG,
                        wh[1], wh[2], text_w, page_rotation)
        IN  IF grid.status # "ok"
            THEN [doc |-> AfterSkip(doc, reg.doc), warn |-> "grid",
                  abort |-> GridErrorAborts]
            ELSE
            LET app == add_to_page_content(reg.doc, object_id, grid.ops)
            IN  IF ~app.ok
                THEN [doc |-> AfterSkip(doc, reg.doc), warn |-> "content",
                      abort |-> AppendErrorAborts]
                ELSE [doc |-> app.doc, warn |-> "none", abort |-> FALSE]

\* An error that would be passed over.
Swallowed == FALSE

\* Lines 177-190: `?` on Document::load, fs::read, FontRef::try_from_slice
\* and encode returns the error at once.
LoadErrorAborts == TRUE

\* Lines 177-215: load the document, read and parse the font, vectorize the
\* text once, add the XObject, measure the text.  loaded says whether
\* Document::load, fs::read, FontRef::try_from_slice and encode all succeed.
Load(loaded) ==
    /\ p_pc = "load"
    /\ p_load' = IF loaded THEN "ok" ELSE "err"
    /\ IF ~loaded
       THEN /\ IF LoadErrorAborts
               THEN p_pc' = "done" /\ p_result' = "err"
               ELSE p_pc' = "pages" /\ UNCHANGED p_result
            /\ UNCHANGED <<p_doc, p_xobject_id, p_text_w, p_added>>
       ELSE LET watermark_ops == text_to_pdf_paths(p_text, X_START, Y_START,
                                                   DEFAULT_FONT_SIZE)
                id == NewObjectId(p_doc)
            IN  /\ p_doc' = [o \in DOMAIN p_doc \cup {id} |->
                               IF o = id THEN WatermarkStream(watermark_ops)
                               ELSE p_doc[o]]
                /\ p_xobject_id' = id
                /\ p_added' = p_added \cup {id}
                /\ p_text_w' = measure_text_width(p_text, DEFAULT_FONT_SIZE)
                /\ p_pc' = "pages"
                /\ UNCHANGED p_result
    /\ UNCHANGED <<p_doc0, p_pages, p_text, p_idx, p_visited, p_log, p_saved, p_save_called>>

\* Lines 218-257, one turn of `for (page_num, object_id) in doc.get_pages()`.
PageStep ==
    /\ p_pc = "pages"
    /\ p_idx < Len(p_pages)
    /\ \E object_id \in {p_pages[p_idx + 1]} :
          \E b \in {PageBody(p_doc, object_id, p_xobject_id, p_text_w)} :
              /\ p_doc' = b.doc
              /\ p_visited' = Append(p_visited, object_id)
              /\ p_log' = IF b.warn = "none" THEN p_log
                          ELSE Append(p_log, <<object_id, b.warn>>)
              /\ IF b.abort
                 THEN p_pc' = "done" /\ p_result' = "err"
                 ELSE UNCHANGED <<p_pc, p_result>>
    /\ p_idx' = p_idx + 1
    /\ UNCHANGED <<p_doc0, p_pages, p_text, p_xobject_id, p_text_w, p_added, p_saved, p_load, p_save_called>>

\* Lines 259-266: save and verify.  written says whether doc.save succeeds
\* and the output file exists afterwards.
Save(written) ==
    /\ p_pc = "pages"
    /\ p_idx = Len(p_pages)
    /\ p_save_called' = TRUE
    /\ p_saved' = written
    /\ p_result' = IF written THEN "ok" ELSE "err"
    /\ p_pc' = "done"
    /\ UNCHANGED <<p_doc, p_doc0, p_pages, p_text, p_idx, p_xobject_id, p_text_w, p_added, p_visited, p_log, p_load>>

RunIdle ==
    /\ p_pc = "idle"
    /\ p_doc = <<>>
    /\ p_doc0 = <<>>
    /\ p_pages = <<>>
    /\ p_text = <<>>
    /\ p_idx = 0
    /\ p_xobject_id = 0
    /\ p_text_w = 0
    /\ p_added = {}
    /\ p_visited = <<>>
    /\ p_log = <<>>
    /\ p_saved = FALSE
    /\ p_load = "none"
    /\ p_save_called = FALSE
    /\ p_result = "none"

-----------------------------------------------------------------------------
(* The Grid Planner as a function of its arguments: SpecGrid calls it on   *)
(* page-sized inputs, whose grid TLC enumerates instance by instance.      *)

MaxRotQuarter == 3      \* page rotations 0, 90, ..., 90 * MaxRotQuarter
MaxTextWidthStep == 2   \* text widths 200 pt, 315 pt, ...

Idle == [status |-> "idle"]

GridIdle ==
    /\ g_in = Idle
    /\ g_out = Idle
    /\ n_out = Idle
    /\ d_in = Idle
    /\ d_out = Idle

PageIdle ==
    /\ s_doc = <<>>
    /\ s_size = Idle
    /\ s_lib = Idle
    /\ s_main = Idle

GridArgs(size, width, height, text_w, page_rotation) ==
    [size |-> size, width |-> width, height |-> height, text_w |-> text_w,
     page_rotation |-> page_rotation]

\* Pages of ordinary size (A4 upright and turned, Letter, a small label) with a
\* watermark text of ordinary width.
PageInputs ==
    { GridArgs(DEFAULT_FONT_SIZE, wh[1], wh[2], 2000 + 1150 * k, 90 * q) :
        wh \in { <<DEFAULT_PAGE_W, DEFAULT_PAGE_H>>,
                 <<DEFAULT_PAGE_H, DEFAULT_PAGE_W>>, <<6120, 7920>>,
                 <<2000, 1000>> },
        k \in 0..MaxTextWidthStep, q \in 0..MaxRotQuarter }

\* Degenerate sizes around the validation threshold, on an empty MediaBox.
ThresholdInputs ==
    { GridArgs(size, 0, 0, text_w, 0) :
        size \in {-10, 0, 10, DEFAULT_FONT_SIZE},
        text_w \in { -GRID_HORIZONTAL_GAP - 10, -GRID_HORIZONTAL_GAP,
                     -GRID_HORIZONTAL_GAP + 1, -GRID_HORIZONTAL_GAP + 2, 0 } }

GridInputs == PageInputs \cup ThresholdInputs

InitGrid ==
    /\ g_in \in GridInputs
    /\ g_out = NoResult
    /\ n_out = NoResult
    /\ d_in = Idle
    /\ d_out = Idle
    /\ VecIdle
    /\ RotIdle
    /\ RunIdle
    /\ PageIdle

PlanGrid ==
    /\ g_out = NoResult
    /\ g_out' = build_watermark_grid_ops_xobject_optimized(
                    "Watermark1", g_in.size, WATERMARK_ANGLE_DEG, g_in.width,
                    g_in.height, g_in.text_w, g_in.page_rotation)
    /\ UNCHANGED <<g_in, n_out, d_in, d_out>>
    /\ UNCHANGED <<vecVars, rotVars, runVars, pageVars>>

\* main.rs line 67, on the same page and text.
PlanGridMain ==
    /\ n_out = NoResult
    /\ n_out' = build_watermark_grid_ops_xobject(
                    "Watermark1", g_in.size, WATERMARK_ANGLE_DEG, g_in.width,
                    g_in.height, g_in.page_rotation, g_in.text_w)
    /\ UNCHANGED <<g_in, g_out, d_in, d_out>>
    /\ UNCHANGED <<vecVars, rotVars, runVars, pageVars>>

NextGrid == PlanGrid \/ PlanGridMain

SpecGrid == InitGrid /\ [][NextGrid]_vars

GridCalled == g_out.status \in {"sizing", "density", "ok"}

\* The translation (x, y) of the set-transform operation op.
CmX(op) == op[6]
CmY(op) == op[7]

C5_SizingValidated ==
    GridCalled =>
        LET inner_step == g_in.text_w + GRID_HORIZONTAL_GAP
            outer_step == g_in.size * GRID_VERTICAL_MULTIPLIER
        IN  /\ (g_out.status = "sizing") <=>
                   (inner_step <= MIN_GRID_STEP_SIZE
                    \/ outer_step <= MIN_GRID_STEP_SIZE)
            /\ g_out.status = "sizing" => g_out.ops = <<>>

\* A call rejected although its inner step is positive: it equals the
\* threshold, and the outer step is fine.
C5_Witness ==
    /\ g_out.status = "sizing"
    /\ g_in.text_w + GRID_HORIZONTAL_GAP = MIN_GRID_STEP_SIZE
    /\ g_in.size * GRID_VERTICAL_MULTIPLIER > MIN_GRID_STEP_SIZE

-----------------------------------------------------------------------------
(* The validation part of the Grid Planner on very large pages, where the  *)
(* density check decides.  SpecDensity computes the verdict and the loop   *)
(* bounds; the loop itself is not unrolled there.                          *)

MaxDensityStep == 30    \* page widths 16000 pt, 16010 pt, ...

DensityInputs ==
    { GridArgs(DEFAULT_FONT_SIZE, 160000 + 100 * k, h, text_w, 0) :
        k \in 0..MaxDensityStep, h \in {160000, 161000, 162000},
        text_w \in {0, 10} }

InitDensity ==
    /\ d_in \in DensityInputs
    /\ d_out = NoResult
    /\ g_in = Idle
    /\ g_out = Idle
    /\ n_out = Idle
    /\ VecIdle
    /\ RotIdle
    /\ RunIdle
    /\ PageIdle

CheckDensity ==
    /\ d_out = NoResult
    /\ d_out' = GridCheck(d_in.size, d_in.width, d_in.height, d_in.text_w)
    /\ UNCHANGED <<d_in, g_in, g_out, n_out>>
    /\ UNCHANGED <<vecVars, rotVars, runVars, pageVars>>

NextDensity == CheckDensity

SpecDensity == InitDensity /\ [][NextDensity]_vars

\* C3: whenever the Grid Planner accepts (returns Ok), the number of
\* (vi, ui) pairs its loops visit, (v_count + 1) * (u_count + 1), is at most
\* MAX_ALLOWED_WATERMARKS.
C3_DensityCapOnIterations ==
    d_out.status = "ok" =>
        GridIterations(d_out.v_count, d_out.u_count) <= MAX_ALLOWED_WATERMARKS

-----------------------------------------------------------------------------
(* The Vectorizer on every text of at most MaxTextLen characters.          *)

InitVec ==
    /\ t_text \in Texts
    /\ t_pc = "start"
    /\ t_i = 0
    /\ t_ops = <<>>
    /\ x_cursor = 0
    /\ GridIdle
    /\ RotIdle
    /\ RunIdle
    /\ PageIdle

NextVec ==
    \/ VecStart /\ UNCHANGED <<gridVars, rotVars, runVars, pageVars>>
    \/ VecChar /\ UNCHANGED <<gridVars, rotVars, runVars, pageVars>>
    \/ VecFinish /\ UNCHANGED <<gridVars, rotVars, runVars, pageVars>>

SpecVec == InitVec /\ [][NextVec]_vars

\* The number of operations named nm in ops.
CountOps(ops, nm) == Cardinality({i \in 1..Len(ops) : ops[i][1] = nm})

\* The contours of an outline, counted as the data model defines them: a
\* contour starts at the first segment of a glyph and wherever a segment's
\* start differs from the previous segment's end by more than the epsilon in
\* x or in y.
ContoursOfOutline(curves) ==
    Cardinality({i \in 1..Len(curves) :
        \/ i = 1
        \/ Abs(curves[i][2][1] - curves[i - 1][Len(curves[i - 1])][1]) > CONTOUR_EPSILON
        \/ Abs(curves[i][2][2] - curves[i - 1][Len(curves[i - 1])][2]) > CONTOUR_EPSILON})

RECURSIVE ContoursOfText(_, _)
ContoursOfText(text, n) ==
    IF n = 0 THEN 0
    ELSE ContoursOfText(text, n - 1)
         + (IF FontOutline(text[n]) = None THEN 0
            ELSE ContoursOfOutline(FontOutline(text[n])[2]))

PathOpNames == {"m", "l", "c", "h"}

\* C8: for a text whose outlines hold k contours, text_to_pdf_paths emits
\* exactly k move-to and k close-path operations (after every character, and
\* at the end), every contour is closed right before the next move-to and
\* before the fill, and there is exactly one fill, after all path operations.
C8_ContourAccounting ==
    /\ t_pc \in {"chars", "done"} =>
          /\ CountOps(t_ops, "m") = ContoursOfText(t_text, t_i)
          /\ CountOps(t_ops, "h") = ContoursOfText(t_text, t_i)
    /\ t_pc = "done" =>
          /\ CountOps(t_ops, "f") = 1
          /\ t_ops[Len(t_ops) - 1][1] = "f"
          /\ \A i \in 1..Len(t_ops) :
                t_ops[i][1] \in PathOpNames => i < Len(t_ops) - 1
          /\ \A i \in 1..Len(t_ops) :
                t_ops[i][1] = "m" =>
                    LET j == CHOOSE n \in (i + 1)..Len(t_ops) :
                                /\ t_ops[n][1] \in {"m", "f"}
                                /\ \A r \in (i + 1)..(n - 1) :
                                      t_ops[r][1] \notin {"m", "f"}
                    IN  t_ops[j - 1][1] = "h" /\ j - 1 > i

\* A finished text with a glyph of two contours, a glyph of one and a
\* character without outline.
C8_Witness ==
    /\ t_pc = "done"
    /\ t_text = <<"o", " ", "l">>
    /\ CountOps(t_ops, "m") = 3
    /\ CountOps(t_ops, "h") = 3

\* C9: measure_text_width is the sum of the scaled advances of the text's
\* characters and equals the displacement of the Vectorizer's cursor
\* (x_cursor - x_start) after the same characters; a character without
\* outline adds its advance to the cursor and no operation.
C9_WidthRenderConsistent ==
    /\ [](t_pc \in {"chars", "done"} =>
            x_cursor - X_START = MeasureUpTo(t_text, t_i, DEFAULT_FONT_SIZE))
    /\ [](t_pc = "done" =>
            x_cursor - X_START = measure_text_width(t_text, DEFAULT_FONT_SIZE))
    /\ [][(t_pc = "chars" /\ t_i' = t_i + 1
             /\ FontOutline(t_text[t_i + 1]) = None) =>
            /\ t_ops' = t_ops
            /\ x_cursor' = x_cursor
                    + h_advance(t_text[t_i + 1], DEFAULT_FONT_SIZE)]_vars

\* The segments of the outlines of the first n characters, in order, each
\* with the cursor at which its character is drawn and the character's index.
RECURSIVE SegmentsOfText(_, _)
SegmentsOfText(text, n) ==
    IF n = 0 THEN <<>>
    ELSE SegmentsOfText(text, n - 1)
         \o (IF FontOutline(text[n]) = None THEN <<>>
             ELSE LET curves == FontOutline(text[n])[2]
                  IN  [k \in 1..Len(curves) |->
                          [curve |-> curves[k], at |-> n,
                           xc |-> X_START + MeasureUpTo(text, n - 1, DEFAULT_FONT_SIZE)]])

\* The positions in ops of the drawing operations (line-to, curve-to).
RECURSIVE DrawPositions(_, _)
DrawPositions(ops, n) ==
    IF n = 0 THEN <<>>
    ELSE IF ops[n][1] \in {"l", "c"}
         THEN Append(DrawPositions(ops, n - 1), n)
         ELSE DrawPositions(ops, n - 1)

\* The point a + 2/3 * (b - a), that is (a + 2 * b) / 3.
Elevated(a, b) == <<(a[1] + 2 * b[1]) \div 3, (a[2] + 2 * b[2]) \div 3>>

\* Is point b farther than the epsilon from point a, in x or in y?
Apart(a, b) ==
    \/ Abs(b[1] - a[1]) > CONTOUR_EPSILON
    \/ Abs(b[2] - a[2]) > CONTOUR_EPSILON

\* C16: the drawing operations follow the segments one to one; for a
\* quadratic segment (P0, P1, P2) the operation is a curve-to with control
\* points P0 + 2/3 (P1 - P0) and P2 + 2/3 (P1 - P2) and end point P2, all
\* three mapped by the cursor and the scale; and P2 is the last point seen:
\* the next segment of the glyph continues the contour exactly when it
\* starts within the epsilon of P2.
C16_QuadElevation ==
    t_pc \in {"chars", "done"} =>
        LET segs == SegmentsOfText(t_text, t_i)
            pos == DrawPositions(t_ops, Len(t_ops))
        IN  /\ Len(pos) = Len(segs)
            /\ \A k \in 1..Len(segs) :
                  segs[k].curve[1] = "Quad" =>
                      LET p0 == segs[k].curve[2]
                          p1 == segs[k].curve[3]
                          p2 == segs[k].curve[4]
                          xc == segs[k].xc
                      IN  /\ t_ops[pos[k]] =
                                <<"c">>
                                    \o Mapped(Elevated(p0, p1), xc, Y_START, DEFAULT_FONT_SIZE)
                                    \o Mapped(Elevated(p2, p1), xc, Y_START, DEFAULT_FONT_SIZE)
                                    \o Mapped(p2, xc, Y_START, DEFAULT_FONT_SIZE)
                          /\ (k < Len(segs) /\ segs[k + 1].at = segs[k].at) =>
                                IF Apart(p2, segs[k + 1].curve[2])
                                THEN /\ pos[k + 1] = pos[k] + 3
                                     /\ t_ops[pos[k] + 1][1] = "h"
                                     /\ t_ops[pos[k] + 2][1] = "m"
                                ELSE pos[k + 1] = pos[k] + 1

\* A finished text whose second character, drawn away from the origin, has
\* quadratic segments, one continued within the epsilon of its end point.
C16_Witness ==
    /\ t_pc = "done"
    /\ t_text = <<"l", "o">>
    /\ x_cursor > h_advance("l", DEFAULT_FONT_SIZE)
    /\ Cardinality({k \in 1..Len(SegmentsOfText(t_text, 2)) :
                       SegmentsOfText(t_text, 2)[k].curve[1] = "Quad"}) = 3
    /\ CountOps(t_ops, "c") = 4

\* A finished text with a space between two outlined characters.
C9_Witness ==
    /\ t_pc = "done"
    /\ t_text = <<"l", " ", "o">>
    /\ x_cursor = measure_text_width(t_text, DEFAULT_FONT_SIZE)
    /\ x_cursor > 0

-----------------------------------------------------------------------------
(* The two rotation lookups on page trees that are a chain of Parent       *)
(* references from the page (object 1): well-formed ones, and malformed    *)
(* ones whose chain ends in a cycle, a dangling reference or an object     *)
(* that is no dictionary.                                                  *)

MaxChainLen == 13       \* nodes on the chain, the page included

IntObjId == MaxChainLen + 2      \* an Integer object, 270
OtherObjId == MaxChainLen + 3    \* an object that is neither
MissingId == MaxChainLen + 4     \* no object has this id

RotateEntries == {IntEntry(90), IntEntry(-90), RefEntry(IntObjId), RefEntry(OtherObjId), RefEntry(MissingId), OtherEntry}

TailEntries == {Absent, RefEntry(1), RefEntry(MissingId), RefEntry(OtherObjId), OtherEntry}

Obj(kind, rotate, parent, val) ==
    [kind |-> kind, rotate |-> rotate, parent |-> parent, val |-> val]

\* A chain of len nodes: the page is of kind pageKind, node rotAt (none when
\* 0) carries the Rotate entry rot, the last node carries Rotate 180 when
\* rootRot says so, and its Parent entry is tail.
ChainDoc(len, pageKind, rotAt, rot, rootRot, tail) ==
    [id \in (1..len) \cup {IntObjId, OtherObjId} |->
        IF id = IntObjId THEN Obj("int", Absent, Absent, 270)
        ELSE IF id = OtherObjId THEN Obj("other", Absent, Absent, 0)
        ELSE Obj(IF id = 1 THEN pageKind ELSE "dict",
                 IF id = rotAt THEN rot
                 ELSE IF id = len /\ rootRot THEN IntEntry(180)
                 ELSE Absent,
                 IF id < len THEN RefEntry(id + 1) ELSE tail,
                 0)]

ChainDocs ==
    { ChainDoc(len, pk, rotAt, rot, rootRot, tail) :
        len \in 1..MaxChainLen, pk \in {"dict", "stream"},
        rotAt \in {0, 1, 2, MAX_PARENT_DEPTH, MAX_PARENT_DEPTH + 1, MAX_PARENT_DEPTH + 2},
        rot \in RotateEntries, rootRot \in BOOLEAN, tail \in TailEntries }

PageId == 1

InitRot ==
    /\ r_doc \in ChainDocs
    /\ r_current = Some(PageId)
    /\ r_depth = 0
    /\ r_pc = "walk"
    /\ r_result = 0
    /\ m_current = Some(PageId)
    /\ m_pc = "walk"
    /\ m_turn = 0
    /\ m_result = 0
    /\ GridIdle
    /\ VecIdle
    /\ RunIdle
    /\ PageIdle

LibStep == (LibIter \/ LibExit) /\ UNCHANGED <<gridVars, vecVars, runVars, pageVars>>

MainStep == (MainIter \/ MainExit) /\ UNCHANGED <<gridVars, vecVars, runVars, pageVars>>

NextRot ==
    \/ LibIter /\ UNCHANGED <<gridVars, vecVars, runVars, pageVars>>
    \/ LibExit /\ UNCHANGED <<gridVars, vecVars, runVars, pageVars>>
    \/ MainIter /\ UNCHANGED <<gridVars, vecVars, runVars, pageVars>>
    \/ MainExit /\ UNCHANGED <<gridVars, vecVars, runVars, pageVars>>

\* Each lookup is sequential code: a loop that can take its next turn takes it.
SpecRot ==
    /\ InitRot
    /\ [][NextRot]_vars
    /\ WF_vars(LibStep)
    /\ WF_vars(MainStep)

\* The node k Parent references above the page, or 0 when the chain does not
\* reach that far through dictionaries.
RECURSIVE AncestorAt(_, _)
AncestorAt(doc, k) ==
    IF k = 0 THEN (IF HasObject(doc, PageId) /\ DictLike(doc[PageId]) THEN PageId ELSE 0)
    ELSE LET below == AncestorAt(doc, k - 1)
         IN  IF below = 0 \/ doc[below].parent[1] # "ref" THEN 0
             ELSE LET up == doc[below].parent[2]
                  IN  IF HasObject(doc, up) /\ DictLike(doc[up]) THEN up ELSE 0

\* A node defines Rotate when its Rotate entry is an integer, directly or
\* through a reference.
DefinesRotate(doc, id) == ResolveRotate(doc, doc[id].rotate) # None

DefiningDepths(doc) ==
    {k \in 0..MAX_PARENT_DEPTH :
        AncestorAt(doc, k) # 0 /\ DefinesRotate(doc, AncestorAt(doc, k))}

NearestRotate(doc) ==
    IF DefiningDepths(doc) = {} THEN 0
    ELSE LET k == CHOOSE n \in DefiningDepths(doc) :
                     \A o \in DefiningDepths(doc) : n <= o
         IN  ResolveRotate(doc, doc[AncestorAt(doc, k)].rotate)[2]

\* C6: the library's get_page_rotation returns the Rotate value of the
\* nearest node, among the page and its ancestors at most MAX_PARENT_DEPTH
\* Parent references away, that defines it, and 0 when there is none.
C6_RotationInherited ==
    r_pc = "done" => r_result = NearestRotate(r_doc)

\* A page without Rotate whose ancestor exactly MAX_PARENT_DEPTH references
\* up declares 90: the lookup has returned 90.
C6_Witness ==
    /\ r_pc = "done"
    /\ r_result = 90
    /\ r_doc[PageId].rotate = Absent
    /\ r_depth = MAX_PARENT_DEPTH

\* The rotations a page can have.
PageRotations == {0, 90, 180, 270}

\* C13: the rotation get_page_rotation resolves is one of 0, 90, 180, 270.
C13_RotationInRange ==
    r_pc = "done" => r_result \in PageRotations

\* C7: on every document, cyclic ones included, the rotation lookup of the
\* library and the one of the command-line program both terminate.
C7_LookupsTerminate ==
    <>(r_pc = "done" /\ m_pc = "done")

-----------------------------------------------------------------------------
(* run_watermark_process on documents of at most MaxPages pages under one  *)
(* page-tree root turned by 90 degrees, each page one of PageTemplates.    *)

MaxPages == 3

RootId == MaxPages + 1       \* the Pages node, parent of every page
OldXObjId == MaxPages + 2    \* an XObject the input document already holds

SmallBox == <<"array", <<NumEntry(0), NumEntry(0), NumEntry(2000), NumEntry(1000)>> >>
HugeBox == <<"array", <<NumEntry(0), NumEntry(0), NumEntry(600000), NumEntry(600000)>> >>

PageObj(kind, rotate, box, resources, content, appendable) ==
    [kind |-> kind, rotate |-> rotate, parent |-> RefEntry(RootId), val |-> 0,
     box |-> box, resources |-> resources, content |-> content,
     appendable |-> appendable]

OldContent == << <<"BT">>, <<"ET">> >>

PageTemplates == [
    plain |-> PageObj("dict", Absent, SmallBox, Absent, OldContent, TRUE),
    known |-> PageObj("dict", IntEntry(180), Absent,
                      <<"dict", <<"dict", [n \in {XOBJECT_NAME, "Im0"} |-> OldXObjId]>> >>,
                      <<>>, TRUE),
    resref |-> PageObj("dict", Absent, SmallBox, OtherEntry, OldContent, TRUE),
    xobjref |-> PageObj("dict", Absent, SmallBox, <<"dict", OtherEntry>>, OldContent, TRUE),
    notdict |-> PageObj("other", Absent, Absent, Absent, <<>>, FALSE),
    badcontent |-> PageObj("dict", Absent, SmallBox,
                           <<"dict", <<"dict", [n \in {XOBJECT_NAME} |-> OldXObjId]>> >>,
                           OldContent, FALSE),
    huge |-> PageObj("dict", Absent, HugeBox, <<"dict", Absent>>, OldContent, TRUE) ]

TemplateNames == DOMAIN PageTemplates

RECURSIVE TemplateSeqs(_)
TemplateSeqs(n) ==
    IF n = 0 THEN {<<>>}
    ELSE {Append(q, t) : q \in TemplateSeqs(n - 1), t \in TemplateNames}

\* The document whose pages 1..Len(names) follow the templates named, under
\* a root whose Rotate entry is rootRotate.
RunDoc(names, rootRotate) ==
    [id \in (1..Len(names)) \cup {RootId, OldXObjId} |->
        IF id = RootId
        THEN [kind |-> "dict", rotate |-> rootRotate, parent |-> Absent,
              val |-> 0, box |-> Absent, resources |-> Absent,
              content |-> <<>>, appendable |-> FALSE]
        ELSE IF id = OldXObjId THEN WatermarkStream(<<>>)
        ELSE PageTemplates[names[id]]]

RunText == <<"l", " ", "o">>

Init ==
    /\ \E n \in 0..MaxPages :
          \E names \in TemplateSeqs(n) :
              /\ p_doc = RunDoc(names, IntEntry(90))
              /\ p_pages = [i \in 1..n |-> i]
    /\ p_doc0 = p_doc
    /\ p_text = RunText
    /\ p_pc = "load"
    /\ p_idx = 0
    /\ p_xobject_id = 0
    /\ p_text_w = 0
    /\ p_added = {}
    /\ p_visited = <<>>
    /\ p_log = <<>>
    /\ p_saved = FALSE
    /\ p_load = "none"
    /\ p_save_called = FALSE
    /\ p_result = "none"
    /\ GridIdle
    /\ VecIdle
    /\ RotIdle
    /\ PageIdle

Next ==
    \/ \E loaded \in BOOLEAN : Load(loaded) /\ UNCHANGED <<gridVars, vecVars, rotVars, pageVars>>
    \/ PageStep /\ UNCHANGED <<gridVars, vecVars, rotVars, pageVars>>
    \/ \E written \in BOOLEAN : Save(written) /\ UNCHANGED <<gridVars, vecVars, rotVars, pageVars>>

Spec == Init /\ [][Next]_vars

\* Load succeeded: the run has reached the page loop.
Loaded == p_pc \in {"pages", "done"} /\ p_xobject_id # 0

\* The pages for which the run printed the warning of step.
Warned(step) == {p_log[i][1] : i \in {j \in 1..Len(p_log) : p_log[j][2] = step}}

\* The object id page id's Resources/XObject table gives name, 0 if none.
XObjectEntry(doc, id, name) ==
    IF HasObject(doc, id) /\ DictLike(doc[id])
       /\ doc[id].resources[1] = "dict"
       /\ doc[id].resources[2][1] = "dict"
       /\ name \in DOMAIN doc[id].resources[2][2]
    THEN doc[id].resources[2][2][name]
    ELSE 0

\* The page's geometry and rotation in the loaded document, and what the
\* Grid Planner makes of them.
PageGridStatus(id) ==
    LET wh == unwrap_or(page_size(p_doc0, id), <<DEFAULT_PAGE_W, DEFAULT_PAGE_H>>)
    IN  GridCheck(DEFAULT_FONT_SIZE, wh[1], wh[2], p_text_w).status

PageGridOps(id) ==
    LET wh == unwrap_or(page_size(p_doc0, id), <<DEFAULT_PAGE_W, DEFAULT_PAGE_H>>)
    IN  build_watermark_grid_ops_xobject_optimized(
            XOBJECT_NAME, DEFAULT_FONT_SIZE, WATERMARK_ANGLE_DEG, wh[1], wh[2],
            p_text_w, get_page_rotation(p_doc0, id)).ops

\* Page id holds the Watermark1 entry and, after its old content, the grid.
Watermarked(id) ==
    /\ XObjectEntry(p_doc, id, XOBJECT_NAME) = p_xobject_id
    /\ p_doc[id].content = p_doc0[id].content \o PageGridOps(id)
    /\ Len(p_doc[id].content) > Len(p_doc0[id].content)

PageSet == {p_pages[i] : i \in 1..Len(p_pages)}

C2_GridErrorFatal ==
    (p_pc = "done" /\ Warned("grid") # {}) => p_result = "err"

C15_LoadFailureWritesNothing ==
    p_load = "err" =>
        /\ p_pc = "done"
        /\ p_result = "err"
        /\ p_visited = <<>>
        /\ p_idx = 0
        /\ p_log = <<>>
        /\ p_added = {}
        /\ p_doc = p_doc0
        /\ ~p_save_called
        /\ ~p_saved

\* A failed load of a document of three pages.
C15_Witness ==
    /\ p_load = "err"
    /\ p_pc = "done"
    /\ Len(p_pages) = 3
    /\ p_result = "err"

\* C18: a page skipped at grid planning or at the content append holds the
\* Watermark1 entry for the new object, an older entry being overwritten,
\* and its content is what it was; a page skipped at registration is the
\* object it was.
C18_SkipKeepsRegistration ==
    Loaded =>
        /\ \A id \in Warned("grid") \cup Warned("content") :
              /\ XObjectEntry(p_doc, id, XOBJECT_NAME) = p_xobject_id
              /\ XObjectEntry(p_doc0, id, XOBJECT_NAME) # p_xobject_id
              /\ p_doc[id].content = p_doc0[id].content
        /\ \A id \in Warned("resource") : p_doc[id] = p_doc0[id]

\* A finished run with a page skipped at each of the three steps, the one
\* skipped at the append having held a Watermark1 entry for another object.
C18_Witness ==
    /\ p_pc = "done"
    /\ Warned("resource") # {}
    /\ Warned("grid") # {}
    /\ \E id \in Warned("content") :
          /\ XObjectEntry(p_doc0, id, XOBJECT_NAME) = OldXObjId
          /\ XObjectEntry(p_doc, id, XOBJECT_NAME) = p_xobject_id
          /\ p_doc[id].content = OldContent

-----------------------------------------------------------------------------
(* One page on its own: page_size with the default of the page loop, and   *)
(* add_xobject_to_page of the library and of the command-line program, on  *)
(* page objects of every kind with MediaBox arrays of up to MaxBoxLen      *)
(* entries.                                                                *)

MaxBoxLen == 4

\* The entries of a MediaBox array: two numbers and an object that is not a
\* number (a name, a reference to a number).
BoxEntries == {NumEntry(0), NumEntry(DEFAULT_PAGE_W), <<"other">>}

RECURSIVE BoxArrays(_)
BoxArrays(n) ==
    IF n = 0 THEN {<<>>}
    ELSE {Append(a, e) : a \in BoxArrays(n - 1), e \in BoxEntries}

Boxes ==
    {Absent, OtherEntry}
        \cup {<<"array", a>> : a \in UNION {BoxArrays(n) : n \in 0..MaxBoxLen}}

ResourceEntries ==
    {Absent, OtherEntry, <<"dict", Absent>>, <<"dict", OtherEntry>>,
     <<"dict", <<"dict", [n \in {XOBJECT_NAME} |-> OldXObjId]>> >>}

\* The id of the watermark XObject handed to add_xobject_to_page.
PageXObjectId == OldXObjId + 1

\* The documents: no object under PageId, or one of kind dict, stream or
\* other.
PageDocs ==
    {[id \in {} |-> 0]}
        \cup {[id \in {PageId} |->
                  PageObj(kind, Absent, box, resources, OldContent, TRUE)] :
              kind \in {"dict", "stream", "other"}, box \in Boxes,
              resources \in ResourceEntries}

InitPage ==
    /\ s_doc \in PageDocs
    /\ s_size = NoResult
    /\ s_lib = NoResult
    /\ s_main = NoResult
    /\ GridIdle
    /\ VecIdle
    /\ RotIdle
    /\ RunIdle

\* lib.rs line 219 (main.rs line 58).
SizePage ==
    /\ s_size = NoResult
    /\ s_size' = [status |-> "called",
                  wh |-> unwrap_or(page_size(s_doc, PageId),
                                   <<DEFAULT_PAGE_W, DEFAULT_PAGE_H>>)]
    /\ UNCHANGED <<s_doc, s_lib, s_main>>

\* lib.rs line 225.
RegisterLib ==
    /\ s_lib = NoResult
    /\ \E r \in {add_xobject_to_page(s_doc, PageId, XOBJECT_NAME, PageXObjectId)} :
          s_lib' = [status |-> "called", ok |-> r.ok, doc |-> r.doc]
    /\ UNCHANGED <<s_doc, s_size, s_main>>

\* main.rs line 62.
RegisterMain ==
    /\ s_main = NoResult
    /\ \E r \in {main_add_xobject_to_page(s_doc, PageId, XOBJECT_NAME, PageXObjectId)} :
          s_main' = [status |-> "called", ok |-> r.ok, doc |-> r.doc]
    /\ UNCHANGED <<s_doc, s_size, s_lib>>

NextPage ==
    \/ SizePage /\ UNCHANGED <<gridVars, vecVars, rotVars, runVars>>
    \/ RegisterLib /\ UNCHANGED <<gridVars, vecVars, rotVars, runVars>>
    \/ RegisterMain /\ UNCHANGED <<gridVars, vecVars, rotVars, runVars>>

SpecPage == InitPage /\ [][NextPage]_vars

\* A MediaBox that is absent or malformed: not an array, shorter than four
\* entries, or holding an entry that is not a number.
Malformed(box) ==
    \/ box[1] # "array"
    \/ Len(box[2]) < 4
    \/ \E i \in 1..Len(box[2]) : box[2][i][1] # "num"

\* C11: for a page whose MediaBox is absent or malformed, the geometry used
\* for tiling is the default 595 x 842.
C11_MalformedBoxFallsBack ==
    (/\ s_size.status = "called"
     /\ HasObject(s_doc, PageId)
     /\ DictLike(s_doc[PageId])
     /\ Malformed(s_doc[PageId].box))
        => s_size.wh = <<DEFAULT_PAGE_W, DEFAULT_PAGE_H>>

\* C14: on a page object that is neither a dictionary nor a stream, the
\* add_xobject_to_page of the library and the one of the command-line
\* program both return an error and leave the document as it was.
C14_NonDictPageRejected ==
    (HasObject(s_doc, PageId) /\ ~DictLike(s_doc[PageId])) =>
        /\ s_lib.status = "called" => (~s_lib.ok /\ s_lib.doc = s_doc)
        /\ s_main.status = "called" => (~s_main.ok /\ s_main.doc = s_doc)

-----------------------------------------------------------------------------
(* Claims on the two grid builders, under SpecGrid.                        *)

\* The set-transform operations of a plan.
CmOps(ops) == {ops[i] : i \in {j \in 1..Len(ops) : ops[j][1] = "cm"}}

\* The operation turns by deg degrees: (cos, sin, -sin, cos).
TurnsBy(op, deg) ==
    /\ op[2] = CosMilli(deg)
    /\ op[3] = SinMilli(deg)
    /\ op[4] = -SinMilli(deg)
    /\ op[5] = CosMilli(deg)

\* C12: in the plan of the library's grid builder and in the plan of the
\* command-line program's, every instance's transform turns by the tiling
\* angle plus the page's rotation.
C12_RotationAdditive ==
    /\ g_out.status = "ok" =>
          \A op \in CmOps(g_out.ops) :
              TurnsBy(op, WATERMARK_ANGLE_DEG + g_in.page_rotation)
    /\ n_out.status = "ok" =>
          \A op \in CmOps(n_out.ops) :
              TurnsBy(op, WATERMARK_ANGLE_DEG + g_in.page_rotation)

\* The anchor of grid index a = <<vi, ui>> for the arguments in: the point
\* centre + turn(u_start + ui * step_inner, v_start + vi * step_outer).
AnchorOf(in, a) ==
    LET chk == GridCheck(in.size, in.width, in.height, in.text_w)
        deg == WATERMARK_ANGLE_DEG + in.page_rotation
        diag == (Hypot(in.width, in.height) * COVERAGE_MULTIPLIER_TENTHS) \div 10
        u == -diag + a[2] * chk.step_inner
        v == -diag - V_START_EXTRA + a[1] * chk.step_outer
    IN  <<in.width \div 2 + CENTER_X_OFFSET
              + Rot(u * CosMilli(deg), -(v * SinMilli(deg))),
          in.height \div 2 - CENTER_Y_OFFSET
              + Rot(u * SinMilli(deg), v * CosMilli(deg))>>

\* The grid indices whose anchor survives the cull.
Surviving(in) ==
    LET chk == GridCheck(in.size, in.width, in.height, in.text_w)
    IN  {a \in (0..chk.v_count) \X (0..chk.u_count) :
            LET xy == AnchorOf(in, a)
            IN  /\ -VISIBILITY_MARGIN < xy[1]
                /\ xy[1] < in.width + VISIBILITY_MARGIN
                /\ -VISIBILITY_MARGIN < xy[2]
                /\ xy[2] < in.height + VISIBILITY_MARGIN}

\* Row-major order on grid indices: vi first, then ui.
RowMajorBefore(b, a) == b[1] < a[1] \/ (b[1] = a[1] /\ b[2] < a[2])

GroupNames == <<"q", "cm", "Do", "Q">>

\* C17: a plan of the Grid Planner is one group q, cm, Do, Q per surviving
\* anchor and nothing else, the groups in row-major order of the grid
\* indices, the cm holding (cos, sin, -sin, cos, x, y) of the anchor and the
\* Do naming the resource; so its length is 4 times the number of surviving
\* anchors and q / Q alternate without nesting.
C17_PlanShape ==
    g_out.status = "ok" =>
        LET surv == Surviving(g_in)
            deg == WATERMARK_ANGLE_DEG + g_in.page_rotation
        IN  /\ Len(g_out.ops) = 4 * Cardinality(surv)
            /\ \A i \in 1..Len(g_out.ops) :
                  g_out.ops[i][1] = GroupNames[((i - 1) % 4) + 1]
            /\ \A a \in surv :
                  LET k == Cardinality({b \in surv : RowMajorBefore(b, a)})
                      xy == AnchorOf(g_in, a)
                  IN  /\ g_out.ops[4 * k + 1] = <<"q">>
                      /\ g_out.ops[4 * k + 2] =
                            <<"cm", CosMilli(deg), SinMilli(deg), -SinMilli(deg),
                              CosMilli(deg), xy[1], xy[2]>>
                      /\ g_out.ops[4 * k + 3] = <<"Do", "Watermark1">>
                      /\ g_out.ops[4 * k + 4] = <<"Q">>

\* A plan for a turned page in which several rows hold surviving anchors and
\* other anchors were culled.
C17_Witness ==
    /\ g_out.status = "ok"
    /\ g_in.page_rotation = 90
    /\ Cardinality({a[1] : a \in Surviving(g_in)}) >= 3
    /\ Len(g_out.ops) >= 12
    /\ 4 * Cardinality(Surviving(g_in))
          < 4 * GridIterations(GridCheck(g_in.size, g_in.width, g_in.height, g_in.text_w).v_count,
                               GridCheck(g_in.size, g_in.width, g_in.height, g_in.text_w).u_count)

=============================================================================
